---- MODULE Spec2Model ----
(***************************************************************************)
(* Model of wt (src/index.ts, second revision, lines 188-405): a wrapper   *)
(* around git's worktree commands.  Text is modelled as sequences of       *)
(* one-character strings so that trim, split, startsWith and substring are *)
(* computed as the code computes them.                                     *)
(***************************************************************************)
EXTENDS Integers, Sequences, FiniteSets, TLC

VARIABLES
    fs,         \* set of existing directories, as absolute paths
    branches,   \* git's branch namespace (set of branch names)
    registry,   \* git's worktree registry: sequence of [path, branch]
    cwd,        \* process.cwd() of the wt process
    op,         \* the last operation run: [kind, name, newName]
    outcome,    \* how the last operation ended
    calls,      \* external invocations issued by the last operation
    raw,        \* stdout of the last `git worktree list --porcelain`
    rawOk,      \* whether that invocation exited with status 0
    worktrees,  \* result of the last getWorktrees
    message,    \* what the last operation wrote to stdout / stderr
    pre         \* [fs, branches, registry, cwd] when the last operation began

vars == <<fs, branches, registry, cwd, op, outcome, calls, raw, rawOk,
          worktrees, message, pre>>

----------------------------------------------------------------------------
(* Bounds *)

MaxLines == 4
NumNames == 2

----------------------------------------------------------------------------
(* Text helpers *)

NL == "\n"
SP == " "

Whitespace == {SP, NL, "\t"}

\* String.prototype.trim
Trim(s) ==
    IF \A i \in 1..Len(s) : s[i] \in Whitespace THEN <<>>
    ELSE SubSeq(s,
                CHOOSE i \in 1..Len(s) :
                    s[i] \notin Whitespace
                    /\ \A j \in 1..(i - 1) : s[j] \in Whitespace,
                CHOOSE i \in 1..Len(s) :
                    s[i] \notin Whitespace
                    /\ \A j \in (i + 1)..Len(s) : s[j] \in Whitespace)

\* String.prototype.startsWith
StartsWith(s, p) == Len(s) >= Len(p) /\ SubSeq(s, 1, Len(p)) = p

\* String.prototype.substring(k)
Substring(s, k) == SubSeq(s, k + 1, Len(s))

\* String.prototype.split(sep) for a one-character separator
Split(s, sep) ==
    LET seps == {i \in 1..Len(s) : s[i] = sep}
        n == Cardinality(seps) + 1
        SepAt(k) == CHOOSE i \in seps : Cardinality({j \in seps : j < i}) = k - 1
        First(k) == IF k = 1 THEN 1 ELSE SepAt(k - 1) + 1
        Last(k) == IF k = n THEN Len(s) ELSE SepAt(k) - 1
    IN [k \in 1..n |-> SubSeq(s, First(k), Last(k))]

\* Array.prototype.join
RECURSIVE JoinLines(_)
JoinLines(ls) ==
    IF ls = <<>> THEN <<>>
    ELSE IF Len(ls) = 1 THEN ls[1]
    ELSE ls[1] \o <<NL>> \o JoinLines(Tail(ls))

\* path.split("/").pop() || ""
LastSegment(p) == LET parts == Split(p, "/") IN parts[Len(parts)]

----------------------------------------------------------------------------
(* Program constants *)

WORKTREES_DIR == <<".", "w", "o", "r", "k", "t", "r", "e", "e", "s">>

WorktreePrefix == <<"w", "o", "r", "k", "t", "r", "e", "e", " ">>
BranchPrefix == <<"b", "r", "a", "n", "c", "h", " ">>
BareLine == <<"b", "a", "r", "e">>
DetachedLine == <<"d", "e", "t", "a", "c", "h", "e", "d">>
DetachedSentinel == <<"d", "e", "t", "a", "c", "h", "e", "d">>

----------------------------------------------------------------------------
(* execCommand and getWorktrees *)

\* variant: a failed command is not recovered to ""
execCommandUnrecovered(out, ok) == Trim(out)

\* execCommand: trimmed stdout, or "" when the command fails
execCommand(out, ok) == IF ok THEN Trim(out) ELSE <<>>

\* variant: only an unset path is rejected, an empty one is not
HasPathDefined(cur) == "path" \in DOMAIN cur

\* if (current.path)
HasPath(cur) == "path" \in DOMAIN cur /\ cur.path # <<>>

\* current.name = ...; current.current = ...; worktrees.push(current)
Finish(cur, dir) ==
    [current |-> cur.path = dir, name |-> LastSegment(cur.path)] @@ cur

\* variant: a branch line does not overwrite a branch already set
ParseLineFirstBranch(st, line, dir) ==
    IF StartsWith(line, WorktreePrefix)
    THEN [out |-> IF HasPath(st.cur) THEN Append(st.out, st.cur) ELSE st.out,
          cur |-> [path |-> Substring(line, 9)]]
    ELSE IF StartsWith(line, BranchPrefix)
    THEN [st EXCEPT !.cur = st.cur @@ [branch |-> Substring(line, 7)]]
    ELSE IF line = BareLine
    THEN [st EXCEPT !.cur = [current |-> FALSE] @@ st.cur]
    ELSE IF line = DetachedLine
    THEN [st EXCEPT !.cur = [branch |-> DetachedSentinel] @@ st.cur]
    ELSE IF line = <<>>
    THEN IF HasPath(st.cur)
         THEN [out |-> Append(st.out, Finish(st.cur, dir)),
               cur |-> <<>>]
         ELSE st
    ELSE st

\* one iteration of the loop over lines; st = [out, cur]
ParseLine(st, line, dir) ==
    IF StartsWith(line, WorktreePrefix)
    THEN [out |-> IF HasPath(st.cur) THEN Append(st.out, st.cur) ELSE st.out,
          cur |-> [path |-> Substring(line, 9)]]
    ELSE IF StartsWith(line, BranchPrefix)
    THEN [st EXCEPT !.cur = [branch |-> Substring(line, 7)] @@ st.cur]
    ELSE IF line = BareLine
    THEN [st EXCEPT !.cur = [current |-> FALSE] @@ st.cur]
    ELSE IF line = DetachedLine
    THEN [st EXCEPT !.cur = [branch |-> DetachedSentinel] @@ st.cur]
    ELSE IF line = <<>>
    THEN IF HasPath(st.cur)
         THEN [out |-> Append(st.out, Finish(st.cur, dir)),
               cur |-> <<>>]
         ELSE st
    ELSE st

RECURSIVE ParseLines(_, _, _)
ParseLines(st, lines, dir) ==
    IF lines = <<>> THEN st
    ELSE ParseLines(ParseLine(st, Head(lines), dir), Tail(lines), dir)

\* getWorktrees, given the execCommand result
getWorktrees(output, dir) ==
    IF output = <<>> THEN <<>>
    ELSE LET st == ParseLines([out |-> <<>>, cur |-> <<>>],
                              Split(output, NL), dir)
         IN IF HasPath(st.cur)
            THEN Append(st.out, Finish(st.cur, dir))
            ELSE st.out

----------------------------------------------------------------------------
(* Paths and names *)

RepoRoot == <<"/", "r">>

Letters == <<"a", "b", "c", "d">>

EmptyName == <<>>

\* values of the <name> argument
Names == {EmptyName} \cup {<<Letters[i]>> : i \in 1..NumNames}

MainBranch == <<"m">>

\* variant: the name is left out of the path
joinWithoutName(dir, name) == dir

\* path.join(WORKTREES_DIR, name) for a name without separators
join(dir, name) == IF name = <<>> THEN dir ELSE dir \o <<"/">> \o name

\* resolution of a relative path against the working directory
Resolve(dir, p) == dir \o <<"/">> \o p

\* variant: the path is looked up without resolving it
existsSyncUnresolved(files, dir, p) == p \in files

\* fs.existsSync / FileSystem.exists
existsSync(files, dir, p) == Resolve(dir, p) \in files

----------------------------------------------------------------------------
(* The external tool.  Each invocation is atomic: it either takes effect   *)
(* or fails and changes nothing.  forced = TRUE stands for a failure whose *)
(* cause lies outside the modelled state (locked or dirty worktree, ...).  *)

RefsHeads == <<"r", "e", "f", "s", "/", "h", "e", "a", "d", "s", "/">>
HeadLine == <<"H", "E", "A", "D", " ", "0">>

\* stdout of `git worktree list --porcelain`
RECURSIVE Porcelain(_)
Porcelain(reg) ==
    IF reg = <<>> THEN <<>>
    ELSE WorktreePrefix \o Head(reg).path \o <<NL>>
         \o HeadLine \o <<NL>>
         \o BranchPrefix \o RefsHeads \o Head(reg).branch \o <<NL>>
         \o <<NL>>
         \o Porcelain(Tail(reg))

World(f, b, r) == [fs |-> f, branches |-> b, registry |-> r]

Registered(w, p) == \E i \in 1..Len(w.registry) : w.registry[i].path = p

\* index of the worktree that contains dir: the linked worktree at dir,
\* else the main worktree
EnclosingWorktree(w, dir) ==
    IF Registered(w, dir)
    THEN CHOOSE i \in 1..Len(w.registry) : w.registry[i].path = dir
    ELSE 1

RemoveAt(s, i) == SubSeq(s, 1, i - 1) \o SubSeq(s, i + 1, Len(s))

\* variant: the worktree is added on the branch already checked out
GitWorktreeAddOnCurrentBranch(w, dir, b, p, forced) ==
    LET abs == Resolve(dir, p)
        ok == ~forced /\ b # <<>> /\ b \notin w.branches /\ abs \notin w.fs
    IN [ok |-> ok,
        world |-> IF ok
                  THEN World(w.fs \cup {abs}, w.branches \cup {b},
                             Append(w.registry,
                                    [path |-> abs,
                                     branch |-> w.registry[1].branch]))
                  ELSE w]

\* git worktree add -b <b> <p>
GitWorktreeAdd(w, dir, b, p, forced) ==
    LET abs == Resolve(dir, p)
        ok == ~forced /\ b # <<>> /\ b \notin w.branches /\ abs \notin w.fs
    IN [ok |-> ok,
        world |-> IF ok
                  THEN World(w.fs \cup {abs}, w.branches \cup {b},
                             Append(w.registry, [path |-> abs, branch |-> b]))
                  ELSE w]

\* variant: the branch checked out in the worktree is deleted with it
GitWorktreeRemoveWithBranch(w, dir, p, forced) ==
    LET abs == Resolve(dir, p)
        ok == ~forced /\ Registered(w, abs) /\ abs # w.registry[1].path
        i == EnclosingWorktree(w, abs)
    IN [ok |-> ok,
        world |-> IF ok
                  THEN World(w.fs \ {abs}, w.branches \ {w.registry[i].branch},
                             RemoveAt(w.registry, i))
                  ELSE w]

\* git worktree remove <p>
GitWorktreeRemove(w, dir, p, forced) ==
    LET abs == Resolve(dir, p)
        ok == ~forced /\ Registered(w, abs) /\ abs # w.registry[1].path
    IN [ok |-> ok,
        world |-> IF ok
                  THEN World(w.fs \ {abs}, w.branches,
                             RemoveAt(w.registry, EnclosingWorktree(w, abs)))
                  ELSE w]

\* variant: the worktree is copied and the old directory stays
GitWorktreeMoveKeepingOld(w, dir, old, new, forced) ==
    LET absOld == Resolve(dir, old)
        absNew == Resolve(dir, new)
        ok == ~forced /\ Registered(w, absOld) /\ absOld # w.registry[1].path
              /\ absNew \notin w.fs
    IN [ok |-> ok,
        world |-> IF ok
                  THEN World(w.fs \cup {absNew}, w.branches,
                             [w.registry EXCEPT
                                 ![EnclosingWorktree(w, absOld)].path = absNew])
                  ELSE w]

\* git worktree move <old> <new>
GitWorktreeMove(w, dir, old, new, forced) ==
    LET absOld == Resolve(dir, old)
        absNew == Resolve(dir, new)
        ok == ~forced /\ Registered(w, absOld) /\ absOld # w.registry[1].path
              /\ absNew \notin w.fs
    IN [ok |-> ok,
        world |-> IF ok
                  THEN World((w.fs \ {absOld}) \cup {absNew}, w.branches,
                             [w.registry EXCEPT
                                 ![EnclosingWorktree(w, absOld)].path = absNew])
                  ELSE w]

\* git branch -m <new>, run inside dir
GitBranchMove(w, dir, new, forced) ==
    LET i == EnclosingWorktree(w, dir)
        old == w.registry[i].branch
        ok == ~forced /\ new # <<>> /\ (new \notin w.branches \/ new = old)
    IN [ok |-> ok,
        world |-> IF ok
                  THEN World(w.fs, (w.branches \ {old}) \cup {new},
                             [w.registry EXCEPT ![i].branch = new])
                  ELSE w]

Call(cmd, dir, ok) == [cmd |-> cmd, cwd |-> dir, ok |-> ok]

----------------------------------------------------------------------------
(* Operations *)

Here == World(fs, branches, registry)

Snapshot == [fs |-> fs, branches |-> branches, registry |-> registry,
             cwd |-> cwd]

Op(kind, name, newName) == [kind |-> kind, name |-> name, newName |-> newName]

\* bookkeeping at the start of an operation
Begin(o) ==
    /\ op' = o
    /\ pre' = Snapshot

\* an operation that runs no Discovery has no listing
NoListing ==
    /\ raw' = <<>>
    /\ rawOk' = TRUE
    /\ worktrees' = <<>>

SetWorld(w) ==
    /\ fs' = w.fs
    /\ branches' = w.branches
    /\ registry' = w.registry

\* worktrees.find(wt => wt.name === name) !== undefined
Found(wts, name) ==
    \E i \in 1..Len(wts) : "name" \in DOMAIN wts[i] /\ wts[i].name = name

\* variant: the worktree's own directory is made in advance
mkdirTargetWorktree(name) == join(WORKTREES_DIR, name)

\* the path passed to mkdirSync
mkdirTarget(name) == WORKTREES_DIR

\* createCommand
createCommand(name) ==
    LET root == Resolve(cwd, WORKTREES_DIR)
        made == World(IF existsSync(fs, cwd, WORKTREES_DIR) THEN fs
                      ELSE fs \cup {root, Resolve(cwd, mkdirTarget(name))},
                      branches, registry)
        worktreePath == join(WORKTREES_DIR, name)
    IN /\ Begin(Op("create", name, <<>>))
       /\ UNCHANGED cwd
       /\ NoListing
       /\ IF existsSync(made.fs, cwd, worktreePath)
          THEN /\ SetWorld(made)
               /\ calls' = <<>>
               /\ message' = <<"already exists">>
               /\ outcome' = "AlreadyExists"
          ELSE \E forced \in BOOLEAN :
                 LET r == GitWorktreeAdd(made, cwd, name, worktreePath, forced)
                 IN /\ SetWorld(r.world)
                    /\ calls' = <<Call("worktree add", cwd, r.ok)>>
                    /\ message' = <<"Created worktree">>
                    /\ outcome' = "ok"

\* listCommand, given what the listing invocation wrote and how it exited
listOn(out, ok) ==
    LET wts == getWorktrees(execCommand(out, ok), cwd)
    IN /\ Begin(Op("list", <<>>, <<>>))
       /\ UNCHANGED <<fs, branches, registry, cwd>>
       /\ raw' = out
       /\ rawOk' = ok
       /\ worktrees' = wts
       /\ calls' = <<Call("worktree list", cwd, ok)>>
       /\ message' = IF Len(wts) = 0 THEN <<"No worktrees found">>
                     ELSE <<"Worktrees:">> \o wts
       /\ outcome' = "ok"

listCommand ==
    \E ok \in BOOLEAN : listOn(IF ok THEN Porcelain(registry) ELSE <<>>, ok)

\* switchCommand; spawns: Bun.spawn starts the shell, status: its exit code
switchCommand(name) ==
    LET worktreePath == join(WORKTREES_DIR, name)
    IN /\ Begin(Op("switch", name, <<>>))
       /\ UNCHANGED <<fs, branches, registry, cwd>>
       /\ NoListing
       /\ IF ~existsSync(fs, cwd, worktreePath)
          THEN /\ calls' = <<>>
               /\ message' = <<"does not exist">>
               /\ outcome' = "NotFound"
          ELSE \E spawns \in BOOLEAN, status \in {0, 1} :
                 LET fullPath == Resolve(cwd, worktreePath)
                 IN /\ calls' = <<[cmd |-> "spawn", cwd |-> fullPath,
                                   ok |-> spawns,
                                   status |-> IF spawns THEN status ELSE 1]>>
                    /\ message' = <<"Switching to worktree">>
                    /\ outcome' = IF spawns THEN "ok" ELSE "SpawnFailed"

\* removeCommand
removeCommand(name) ==
    LET worktreePath == join(WORKTREES_DIR, name)
    IN /\ Begin(Op("remove", name, <<>>))
       /\ UNCHANGED cwd
       /\ NoListing
       /\ IF ~existsSync(fs, cwd, worktreePath)
          THEN /\ UNCHANGED <<fs, branches, registry>>
               /\ calls' = <<>>
               /\ message' = <<"does not exist">>
               /\ outcome' = "NotFound"
          ELSE \E forced \in BOOLEAN :
                 LET r == GitWorktreeRemove(Here, cwd, worktreePath, forced)
                 IN /\ SetWorld(r.world)
                    /\ calls' = <<Call("worktree remove", cwd, r.ok)>>
                    /\ message' = <<"Removed worktree">>
                    /\ outcome' = "ok"

\* variant: the new path is checked before the old one
renameCheckNewFirst(oldExists, newExists, found) ==
    IF newExists THEN "AlreadyExists"
    ELSE IF ~oldExists THEN "NotFound"
    ELSE IF ~found THEN "RegistryInconsistency"
    ELSE "ok"

\* the three precondition checks of renameCommand, in program order
renameCheck(oldExists, newExists, found) ==
    IF ~oldExists THEN "NotFound"
    ELSE IF newExists THEN "AlreadyExists"
    ELSE IF ~found THEN "RegistryInconsistency"
    ELSE "ok"

\* variant: the old name is passed
branchMoveArgOld(oldName, newName) == oldName

\* the branch name passed to `git branch -m`
branchMoveArg(oldName, newName) == newName

\* variant: a failed chdir is ignored and the process stays where it is
chdirIgnoringFailure(files, from, to) ==
    [ok |-> TRUE, cwd |-> IF Resolve(from, to) \in files
                          THEN Resolve(from, to) ELSE from]

\* process.chdir(to): throws when the directory does not exist
chdir(files, from, to) ==
    IF Resolve(from, to) \in files
    THEN [ok |-> TRUE, cwd |-> Resolve(from, to)]
    ELSE [ok |-> FALSE, cwd |-> from]

\* variant: the working directory is not changed back
restoreDirSkipped(currentDir, movedDir) == movedDir

\* process.chdir(currentDir) after the branch rename
restoreDir(currentDir, movedDir) == currentDir

\* renameCommand
renameCommand(oldName, newName) ==
    LET oldPath == join(WORKTREES_DIR, oldName)
        newPath == join(WORKTREES_DIR, newName)
        oldExists == existsSync(fs, cwd, oldPath)
        newExists == existsSync(fs, cwd, newPath)
    IN /\ Begin(Op("rename", oldName, newName))
       /\ IF renameCheck(oldExists, newExists, TRUE) # "ok"
          THEN /\ UNCHANGED <<fs, branches, registry, cwd>>
               /\ NoListing
               /\ calls' = <<>>
               /\ message' = <<IF oldExists THEN "already exists"
                               ELSE "does not exist">>
               /\ outcome' = renameCheck(oldExists, newExists, TRUE)
          ELSE \E listOk \in BOOLEAN :
                 LET out == IF listOk THEN Porcelain(registry) ELSE <<>>
                     wts == getWorktrees(execCommand(out, listOk), cwd)
                     listed == <<Call("worktree list", cwd, listOk)>>
                 IN /\ raw' = out
                    /\ rawOk' = listOk
                    /\ worktrees' = wts
                    /\ IF renameCheck(oldExists, newExists,
                                      Found(wts, oldName)) # "ok"
                       THEN /\ UNCHANGED <<fs, branches, registry, cwd>>
                            /\ calls' = listed
                            /\ message' = <<"Could not find worktree">>
                            /\ outcome' = "RegistryInconsistency"
                       ELSE \E moveForced \in BOOLEAN :
                              LET mv == GitWorktreeMove(Here, cwd, oldPath,
                                                        newPath, moveForced)
                                  moved == Append(listed,
                                      Call("worktree move", cwd, mv.ok))
                                  currentDir == cwd
                                  cd == chdir(mv.world.fs, cwd, newPath)
                                  movedDir == cd.cwd
                              IN IF ~cd.ok
                                 THEN \* process.chdir(newPath) throws
                                      /\ SetWorld(mv.world)
                                      /\ cwd' = cwd
                                      /\ calls' = moved
                                      /\ message' = <<"chdir failed">>
                                      /\ outcome' = "Defect"
                                 ELSE \E branchForced \in BOOLEAN :
                                        LET br == GitBranchMove(mv.world,
                                                movedDir,
                                                branchMoveArg(oldName, newName),
                                                branchForced)
                                        IN /\ SetWorld(br.world)
                                           /\ cwd' = restoreDir(currentDir,
                                                                movedDir)
                                           /\ calls' = Append(moved,
                                                Call("branch -m", movedDir,
                                                     br.ok))
                                           /\ message' = <<"Renamed worktree">>
                                           /\ outcome' = "ok"

----------------------------------------------------------------------------
(* Specification of the lifecycle: a fresh repository with one main        *)
(* worktree, on which wt is run any number of times from the repository    *)
(* root.                                                                   *)

NoOp == Op("none", <<>>, <<>>)

Init ==
    /\ fs = {RepoRoot}
    /\ branches = {MainBranch}
    /\ registry = <<[path |-> RepoRoot, branch |-> MainBranch]>>
    /\ cwd = RepoRoot
    /\ op = NoOp
    /\ outcome = "none"
    /\ calls = <<>>
    /\ raw = <<>>
    /\ rawOk = TRUE
    /\ worktrees = <<>>
    /\ message = <<>>
    /\ pre = [fs |-> {RepoRoot}, branches |-> {MainBranch},
              registry |-> <<[path |-> RepoRoot, branch |-> MainBranch]>>,
              cwd |-> RepoRoot]

Create == \E name \in Names : createCommand(name)
List == listCommand
Switch == \E name \in Names : switchCommand(name)
Remove == \E name \in Names : removeCommand(name)
Rename == \E oldName \in Names, newName \in Names :
              renameCommand(oldName, newName)

Next == Create \/ List \/ Switch \/ Remove \/ Rename

Spec == Init /\ [][Next]_vars

----------------------------------------------------------------------------
(* Specification of Discovery on arbitrary tool output: the listing        *)
(* invocation returns any text of at most MaxLines lines, and list is run  *)
(* on it.                                                                  *)

PathA == <<"/", "r", "/", "a">>
RefX == <<"x">>
RefY == <<"y">>

LineSet ==
    { WorktreePrefix \o RepoRoot,
      WorktreePrefix \o PathA,
      WorktreePrefix,
      BranchPrefix \o RefX,
      BranchPrefix \o RefY,
      BareLine,
      DetachedLine,
      HeadLine,
      <<>> }

Texts == UNION { {JoinLines(ls) : ls \in [1..n -> LineSet]} : n \in 0..MaxLines }

ParseInit ==
    /\ fs = {RepoRoot}
    /\ branches = {MainBranch}
    /\ registry = <<[path |-> RepoRoot, branch |-> MainBranch]>>
    /\ cwd \in {RepoRoot, PathA}
    /\ op = NoOp
    /\ outcome = "none"
    /\ calls = <<>>
    /\ raw \in Texts
    /\ rawOk \in BOOLEAN
    /\ worktrees = <<>>
    /\ message = <<>>
    /\ pre = [fs |-> {RepoRoot}, branches |-> {MainBranch},
              registry |-> <<[path |-> RepoRoot, branch |-> MainBranch]>>,
              cwd |-> RepoRoot]

ListOnText == op = NoOp /\ listOn(raw, rawOk)

ParseNext == ListOnText

ParseSpec == ParseInit /\ [][ParseNext]_vars

----------------------------------------------------------------------------
(* Vocabulary of the properties *)

\* absolute path of ManagedWorktreeRoot/name
ManagedDir(name) ==
    IF name = <<>> THEN RepoRoot \o <<"/">> \o WORKTREES_DIR
    ELSE RepoRoot \o <<"/">> \o WORKTREES_DIR \o <<"/">> \o name

AllOk(cs) == \A i \in 1..Len(cs) : cs[i].ok

Issued(cs, cmd) == \E i \in 1..Len(cs) : cs[i].cmd = cmd

Succeeded(cs, cmd) == \E i \in 1..Len(cs) : cs[i].cmd = cmd /\ cs[i].ok

Failed(cs, cmd) == \E i \in 1..Len(cs) : cs[i].cmd = cmd /\ ~cs[i].ok

StateChanging(cs) == \E i \in 1..Len(cs) : cs[i].cmd # "worktree list"

\* the registry has an entry whose path ends in the segment name
Known(reg, name) == \E i \in 1..Len(reg) : LastSegment(reg[i].path) = name

\* some record of wts has this name, branch ref and path
Shows(wts, name, branch, path) ==
    \E i \in 1..Len(wts) :
        /\ DOMAIN wts[i] = {"path", "branch", "name", "current"}
        /\ wts[i].name = name
        /\ wts[i].branch = RefsHeads \o branch
        /\ wts[i].path = path

----------------------------------------------------------------------------
(* C1: in Rename, when the directory move succeeds and the branch rename   *)
(* fails, the operation's outcome is failure, never success.               *)

C1_RenameReportsBranchFailure ==
    (op.kind = "rename" /\ Succeeded(calls, "worktree move")
        /\ Failed(calls, "branch -m"))
    => outcome # "ok"

----------------------------------------------------------------------------
(* C2: Create(name) run twice in a row with the same name: the second run  *)
(* fails with AlreadyExists and issues no external invocation, whatever    *)
(* the first run's invocation did.                                         *)

SameCreateTwice ==
    op.kind = "create" /\ op'.kind = "create" /\ op'.name = op.name

C2_SecondCreateAlwaysRejected ==
    [][SameCreateTwice => (outcome' = "AlreadyExists" /\ calls' = <<>>)]_vars

(* C2 as amended: the second run fails with AlreadyExists and issues no    *)
(* external invocation when the first run's invocation succeeded or the    *)
(* first run itself failed with AlreadyExists.                             *)

C2_SecondCreateRejectedAfterDirectory ==
    [][(SameCreateTwice
          /\ (outcome = "AlreadyExists" \/ Succeeded(calls, "worktree add")))
       => (outcome' = "AlreadyExists" /\ calls' = <<>>)]_vars

C2_Witness ==
    /\ op.kind = "create"
    /\ op.name # <<>>
    /\ outcome = "AlreadyExists"
    /\ calls = <<>>
    /\ ManagedDir(op.name) \in pre.fs
    /\ op.name \in pre.branches

----------------------------------------------------------------------------
(* C3: whenever Create(name) reports success, afterwards there is a        *)
(* directory at ManagedWorktreeRoot/name, a branch called name and a       *)
(* registry entry for that path.                                           *)

C3_CreateSuccessMeansCreated ==
    (op.kind = "create" /\ outcome = "ok")
    => /\ ManagedDir(op.name) \in fs
       /\ op.name \in branches
       /\ Registered(Here, ManagedDir(op.name))

----------------------------------------------------------------------------
(* C4: after Remove(name) reports success, a List that follows shows no    *)
(* record called name.                                                     *)

C4_RemovedNameNotListed ==
    [][(op.kind = "remove" /\ outcome = "ok" /\ op'.kind = "list")
       => ~Found(worktrees', op.name)]_vars

----------------------------------------------------------------------------
(* C5: Rename checks its preconditions in order, each with its own failure *)
(* and before any state-changing invocation: old path absent gives         *)
(* NotFound; else new path present gives AlreadyExists; else no registry   *)
(* record called oldName gives RegistryInconsistency.  Rename(x, x) on an  *)
(* existing x gives AlreadyExists.                                         *)

C5_RenamePreconditionOrder ==
    op.kind = "rename" =>
        LET oldThere == ManagedDir(op.name) \in pre.fs
            newThere == ManagedDir(op.newName) \in pre.fs
            known == Known(pre.registry, op.name)
        IN /\ ~oldThere
                => (outcome = "NotFound" /\ ~StateChanging(calls))
           /\ (oldThere /\ newThere)
                => (outcome = "AlreadyExists" /\ ~StateChanging(calls))
           /\ (oldThere /\ ~newThere /\ ~known)
                => (outcome = "RegistryInconsistency"
                    /\ ~StateChanging(calls))
           /\ (oldThere /\ op.name = op.newName)
                => outcome = "AlreadyExists"

C5_Witness ==
    /\ op.kind = "rename"
    /\ ManagedDir(op.name) \in pre.fs
    /\ ManagedDir(op.newName) \notin pre.fs
    /\ ~Known(pre.registry, op.name)
    /\ rawOk
    /\ Len(worktrees) > 0
    /\ outcome = "RegistryInconsistency"

----------------------------------------------------------------------------
(* C6: on every exit path of Rename the working directory at exit is the   *)
(* working directory at entry.                                             *)

C6_RenameRestoresCwd == op.kind = "rename" => cwd = pre.cwd

C6_Witness ==
    /\ op.kind = "rename"
    /\ \E i \in 1..Len(calls) :
          /\ calls[i].cmd = "branch -m"
          /\ calls[i].cwd = ManagedDir(op.newName)
          /\ calls[i].cwd # pre.cwd
          /\ ~calls[i].ok
    /\ cwd = pre.cwd

----------------------------------------------------------------------------
(* C7: Switch(name) when ManagedWorktreeRoot/name does not exist fails     *)
(* with NotFound and spawns no subshell.                                   *)

C7_SwitchOnMissingName ==
    (op.kind = "switch" /\ ManagedDir(op.name) \notin pre.fs)
    => (outcome = "NotFound" /\ ~Issued(calls, "spawn"))

C7_Witness ==
    /\ op.kind = "switch"
    /\ op.name # <<>>
    /\ ManagedDir(<<>>) \in pre.fs
    /\ ManagedDir(op.name) \notin pre.fs
    /\ outcome = "NotFound"
    /\ calls = <<>>

----------------------------------------------------------------------------
(* C8: from a state with no worktree x or y, Create(x) followed by         *)
(* Rename(x, y), every invocation succeeding, leads to a Discovery result  *)
(* with a record called y on branch y at ManagedWorktreeRoot/y and no      *)
(* record called x.                                                        *)

CreatedThenRenamed ==
    /\ op.kind = "create" /\ outcome = "ok"
    /\ Succeeded(calls, "worktree add")
    /\ ManagedDir(op.name) \notin pre.fs
    /\ ~Known(pre.registry, op.name)
    /\ op'.kind = "rename" /\ op'.name = op.name /\ outcome' = "ok"
    /\ AllOk(calls')
    /\ ManagedDir(op'.newName) \notin pre.fs
    /\ ~Known(pre.registry, op'.newName)

C8_CreateRenameDiscovery ==
    [][CreatedThenRenamed =>
          LET found == getWorktrees(
                           execCommand(Porcelain(registry'), TRUE), cwd')
          IN /\ Shows(found, op'.newName, op'.newName,
                      ManagedDir(op'.newName))
             /\ ~Found(found, op.name)]_vars

C8_Witness ==
    /\ op.kind = "rename" /\ outcome = "ok"
    /\ Len(calls) = 3 /\ AllOk(calls)
    /\ \E i \in 1..Len(pre.registry) :
          pre.registry[i] = [path |-> ManagedDir(op.name), branch |-> op.name]
    /\ \E i \in 1..Len(registry) :
          registry[i] = [path |-> ManagedDir(op.newName),
                         branch |-> op.newName]
    /\ ManagedDir(op.name) \notin fs

----------------------------------------------------------------------------
(* C9: for a well-formed porcelain input with N worktree groups the parser *)
(* emits exactly N records in input order; each record's path is that of   *)
(* its group's worktree line and its branch is the value of the group's    *)
(* last branch or detached line.                                           *)

IsWorktreeLine(l) == StartsWith(l, WorktreePrefix)

IsBranchLine(l) == StartsWith(l, BranchPrefix) \/ l = DetachedLine

BranchValue(l) == IF l = DetachedLine THEN DetachedSentinel ELSE Substring(l, 7)

\* a group is a maximal run of non-blank lines
GroupStarts(ls) ==
    {i \in 1..Len(ls) : ls[i] # <<>> /\ (i = 1 \/ ls[i - 1] = <<>>)}

GroupEnd(ls, i) ==
    CHOOSE j \in i..Len(ls) :
        /\ \A k \in i..j : ls[k] # <<>>
        /\ (j = Len(ls) \/ ls[j + 1] = <<>>)

\* every group opens with its only worktree line, which has a path
WellFormed(ls) ==
    \A i \in GroupStarts(ls) :
        /\ IsWorktreeLine(ls[i])
        /\ Len(ls[i]) > Len(WorktreePrefix)
        /\ \A k \in (i + 1)..GroupEnd(ls, i) : ~IsWorktreeLine(ls[k])

NthGroup(ls, n) ==
    CHOOSE i \in GroupStarts(ls) :
        Cardinality({j \in GroupStarts(ls) : j < i}) = n - 1

GroupMatches(ls, i, rec) ==
    LET bs == {k \in i..GroupEnd(ls, i) : IsBranchLine(ls[k])}
    IN /\ "path" \in DOMAIN rec
       /\ rec.path = Substring(ls[i], 9)
       /\ bs # {} =>
            /\ "branch" \in DOMAIN rec
            /\ rec.branch =
                  BranchValue(ls[CHOOSE k \in bs : \A m \in bs : m <= k])

C9_ParserRoundTrip ==
    (op.kind = "list" /\ rawOk /\ WellFormed(Split(raw, NL)))
    => LET ls == Split(raw, NL)
           n == Cardinality(GroupStarts(ls))
       IN /\ Len(worktrees) = n
          /\ \A k \in 1..n : GroupMatches(ls, NthGroup(ls, k), worktrees[k])

C9_Witness ==
    /\ op.kind = "list" /\ rawOk /\ WellFormed(Split(raw, NL))
    /\ Cardinality(GroupStarts(Split(raw, NL))) = 2
    /\ Len(worktrees) = 2
    /\ worktrees[1].path # worktrees[2].path
    /\ "branch" \in DOMAIN worktrees[2]

----------------------------------------------------------------------------
(* C10: Discovery on empty tool output, or when the listing invocation     *)
(* fails, returns the empty record sequence and no error; List then        *)
(* reports "no worktrees" and succeeds.                                    *)

C10_EmptyOrFailedListing ==
    (op.kind = "list" /\ (~rawOk \/ raw = <<>>))
    => /\ worktrees = <<>>
       /\ message = <<"No worktrees found">>
       /\ outcome = "ok"

C10_Witness ==
    /\ op.kind = "list"
    /\ ~rawOk
    /\ raw # <<>>
    /\ worktrees = <<>>
    /\ message = <<"No worktrees found">>
    /\ outcome = "ok"

----------------------------------------------------------------------------
(* C11: Remove(name) leaves the branch namespace unchanged: every branch   *)
(* that exists before Remove, the one checked out in the removed worktree  *)
(* included, still exists after it.                                        *)

C11_RemoveKeepsBranches == op.kind = "remove" => branches = pre.branches

C11_Witness ==
    /\ op.kind = "remove"
    /\ Succeeded(calls, "worktree remove")
    /\ ManagedDir(op.name) \in pre.fs
    /\ ManagedDir(op.name) \notin fs
    /\ \E i \in 1..Len(pre.registry) :
          /\ pre.registry[i].path = ManagedDir(op.name)
          /\ pre.registry[i].branch \in branches

----------------------------------------------------------------------------
(* C12: when Switch(name) spawns the subshell, the operation's outcome is  *)
(* the subshell's exit status: a subshell that exits non-zero makes Switch *)
(* end with that non-zero status.                                          *)

C12_SwitchPropagatesExitStatus ==
    (op.kind = "switch" /\ Succeeded(calls, "spawn"))
    => (outcome = "ok" <=> calls[1].status = 0)

----------------------------------------------------------------------------
(* C13: if Rename's move succeeds and its branch rename fails, the state   *)
(* after Rename has the directory and the registry entry at                *)
(* ManagedWorktreeRoot/newName, no directory at ManagedWorktreeRoot/       *)
(* oldName, and the worktree still on its old branch; no move back is      *)
(* issued.                                                                 *)

MoveCalls == {i \in 1..Len(calls) : calls[i].cmd = "worktree move"}

C13_PartialRenameLeftInPlace ==
    (op.kind = "rename" /\ Succeeded(calls, "worktree move")
        /\ Failed(calls, "branch -m"))
    => /\ ManagedDir(op.newName) \in fs
       /\ ManagedDir(op.name) \notin fs
       /\ \E i \in 1..Len(registry) :
             /\ registry[i].path = ManagedDir(op.newName)
             /\ pre.registry[i].path = ManagedDir(op.name)
             /\ registry[i].branch = pre.registry[i].branch
             /\ registry[i].branch \in branches
       /\ ~Registered(Here, ManagedDir(op.name))
       /\ Cardinality(MoveCalls) = 1

C13_Witness ==
    /\ op.kind = "rename"
    /\ Succeeded(calls, "worktree move")
    /\ Failed(calls, "branch -m")
    /\ op.newName \in pre.branches
    /\ ManagedDir(op.newName) \in fs
    /\ \E i \in 1..Len(registry) :
          /\ registry[i].path = ManagedDir(op.newName)
          /\ registry[i].branch # op.newName

----------------------------------------------------------------------------
(* C14: within Rename the steps run in the order move, change into the     *)
(* moved directory, branch rename, restore; the branch rename is never     *)
(* issued unless the move has completed and the working directory is       *)
(* ManagedWorktreeRoot/newName.                                            *)

C14_RenameStepOrder ==
    op.kind = "rename" =>
        \A i \in 1..Len(calls) :
            calls[i].cmd = "branch -m" =>
                /\ i = Len(calls)
                /\ \E j \in 1..(i - 1) :
                      calls[j].cmd = "worktree move" /\ calls[j].ok
                /\ calls[i].cwd = ManagedDir(op.newName)
                /\ calls[i].cwd \in fs
                /\ \A j \in 1..(i - 1) : calls[j].cwd = pre.cwd

C14_Witness ==
    /\ op.kind = "rename"
    /\ Failed(calls, "worktree move")
    /\ ~Issued(calls, "branch -m")
    /\ outcome = "Defect"
    /\ cwd = pre.cwd

----------------------------------------------------------------------------
(* C15: every record the parser emits has name equal to the final          *)
(* /-delimited segment of its path, for any input, also a record closed by *)
(* a following worktree line with no blank line in between.                *)

C15_NameIsLastSegment ==
    op.kind = "list" =>
        \A i \in 1..Len(worktrees) :
            /\ "name" \in DOMAIN worktrees[i]
            /\ worktrees[i].name = LastSegment(worktrees[i].path)

----------------------------------------------------------------------------
(* C16: a record whose group contains the bare token is emitted with       *)
(* isCurrent = false, also when its path is the working directory.         *)

HasBare(ls, i) == \E k \in i..GroupEnd(ls, i) : ls[k] = BareLine

C16_BareIsNeverCurrent ==
    (op.kind = "list" /\ rawOk /\ WellFormed(Split(raw, NL)))
    => LET ls == Split(raw, NL)
       IN \A k \in 1..Len(worktrees) :
              HasBare(ls, NthGroup(ls, k)) => worktrees[k].current = FALSE

----------------------------------------------------------------------------
(* C17: every record the parser emits has a non-empty path, for any input: *)
(* lines before the first worktree line, groups without a worktree line    *)
(* and a worktree line with an empty path produce no record.               *)

C17_RecordsHavePath ==
    op.kind = "list" =>
        \A i \in 1..Len(worktrees) :
            "path" \in DOMAIN worktrees[i] /\ worktrees[i].path # <<>>

C17_Witness ==
    /\ op.kind = "list" /\ rawOk
    /\ LET ls == Split(raw, NL)
       IN /\ Len(ls) = 4
          /\ IsBranchLine(ls[1])
          /\ ls[2] = WorktreePrefix
          /\ ls[3] = <<>>
          /\ IsWorktreeLine(ls[4]) /\ ls[4] # WorktreePrefix
    /\ Len(worktrees) = 1

----------------------------------------------------------------------------
(* C18: a Create, Switch, Remove or Rename that ends with a precondition   *)
(* failure leaves the directories, the managed root included, the branch   *)
(* namespace, the registry and the working directory as they were.         *)

PreconditionFailure ==
    /\ op.kind \in {"create", "switch", "remove", "rename"}
    /\ outcome \in {"AlreadyExists", "NotFound", "RegistryInconsistency"}

C18_FailedPreconditionChangesNothing ==
    PreconditionFailure
    => /\ fs = pre.fs
       /\ branches = pre.branches
       /\ registry = pre.registry
       /\ cwd = pre.cwd

(* C18 as amended: the same, except that a Create that fails with          *)
(* AlreadyExists may have made the managed root, which it creates before   *)
(* it checks the path.                                                     *)

C18_FailedPreconditionChangesOnlyRoot ==
    PreconditionFailure
    => /\ \/ fs = pre.fs
          \/ op.kind = "create" /\ fs = pre.fs \cup {ManagedDir(<<>>)}
       /\ branches = pre.branches
       /\ registry = pre.registry
       /\ cwd = pre.cwd

C18_Witness ==
    /\ op.kind = "create"
    /\ outcome = "AlreadyExists"
    /\ ManagedDir(<<>>) \notin pre.fs
    /\ fs = pre.fs \cup {ManagedDir(<<>>)}
    /\ calls = <<>>

----------------------------------------------------------------------------
(* C19: from an empty managed root, after any Create, Remove and Rename in *)
(* which every invocation succeeds, every directory under the managed root *)
(* has exactly one registry entry, on the branch named like the directory; *)
(* only an operation with a failed invocation can break this.              *)

ManagedDirs == fs \ {RepoRoot, ManagedDir(<<>>)}

DirsConsistent ==
    \A p \in ManagedDirs :
        /\ Cardinality({i \in 1..Len(registry) : registry[i].path = p}) = 1
        /\ \A i \in 1..Len(registry) :
              registry[i].path = p => registry[i].branch = LastSegment(p)

C19_OnlyFailuresBreakConsistency ==
    DirsConsistent
    /\ [][(DirsConsistent /\ AllOk(calls')) => DirsConsistent']_vars

C19_Witness ==
    /\ op.kind = "rename" /\ outcome = "ok"
    /\ Len(calls) = 3 /\ AllOk(calls)
    /\ DirsConsistent
    /\ ManagedDir(op.newName) \in ManagedDirs
    /\ ManagedDir(op.name) \in pre.fs \ fs
    /\ op.name \notin branches

====
